---- MODULE Spec2Model ----
(***************************************************************************)
(* Model of the transcriber's dialogue core:                               *)
(*   whisper_utils.py  _should_mark_indistinct, _emphasize_bracketed,       *)
(*                     transcribe_file (segment construction),              *)
(*                     _split_segment_at_time,                              *)
(*                     _split_segments_at_boundaries, merge_dialogue        *)
(*   lrc_writer.py     _fmt_time                                            *)
(*                                                                         *)
(* Representation.                                                         *)
(*   - str            : a sequence of one-character strings.               *)
(*   - Optional[x]    : the empty set for None, {v} for a value v.         *)
(*   - Optional[List] : `words` is <<>> for None and for []; the code only *)
(*                      tests its truthiness (`if not segment.words`).     *)
(*   - times          : integers (ticks); the midpoint test                *)
(*                      (start+end)/2.0 <= b is start+end <= 2*b.          *)
(*   - avg_logprob    : tenths (-1.2 is -12); probabilities: hundredths.   *)
(*   - _fmt_time      : its argument is in milliseconds.                   *)
(***************************************************************************)
EXTENDS Integers, Sequences, FiniteSets

VARIABLES
    pc,
    \* one call of _split_segments_at_boundaries
    segments, boundaries, result,
    \* one call of merge_dialogue
    left_segments, left_speaker, right_segments, right_speaker,
    left_list, right_list, left_boundaries, right_boundaries, merged,
    \* one call of _fmt_time
    seconds, minutes, secs, centis, formatted

vars == <<pc, segments, boundaries, result,
          left_segments, left_speaker, right_segments, right_speaker,
          left_list, right_list, left_boundaries, right_boundaries, merged,
          seconds, minutes, secs, centis, formatted>>

applyVars == <<segments, boundaries, result>>
mergeVars == <<left_segments, left_speaker, right_segments, right_speaker,
               left_list, right_list, left_boundaries, right_boundaries, merged>>
fmtVars == <<seconds, minutes, secs, centis, formatted>>

----------------------------------------------------------------------------
(* Bounds of the model *)

MaxTime == 3
MaxWords == 2
MaxSegs == 2
MaxBoundaries == 2

Times == 0..MaxTime

None == {}
Some(v) == {v}
Val(o) == CHOOSE v \in o : TRUE

----------------------------------------------------------------------------
(* Strings *)

IsSpace(c) == c = " "

\* \w and "-" over the model's alphabet (_WORDLIKE)
IsWordChar(c) == c \in {"a", "b", "c", "-", "_"}

RECURSIVE LStrip(_)
LStrip(s) ==
    IF s = <<>> THEN s
    ELSE IF IsSpace(Head(s)) THEN LStrip(Tail(s)) ELSE s

RECURSIVE RStrip(_)
RStrip(s) ==
    IF s = <<>> THEN s
    ELSE IF IsSpace(s[Len(s)]) THEN RStrip(SubSeq(s, 1, Len(s) - 1)) ELSE s

\* str.strip()
Strip(s) == RStrip(LStrip(s))

\* "".join(...)
RECURSIVE Join(_)
Join(ss) == IF ss = <<>> THEN <<>> ELSE Head(ss) \o Join(Tail(ss))

\* _WORDLIKE.search(text) is not None
WordlikeSearch(text) == \E i \in 1..Len(text) : IsWordChar(text[i])

\* first index >= i holding a non-space character, Len(s)+1 when there is none
RECURSIVE SkipSpaces(_, _)
SkipSpaces(s, i) ==
    IF i > Len(s) THEN i
    ELSE IF IsSpace(s[i]) THEN SkipSpaces(s, i + 1) ELSE i

\* first index >= i holding character c, 0 when there is none
RECURSIVE IndexOf(_, _, _)
IndexOf(s, c, i) ==
    IF i > Len(s) THEN 0
    ELSE IF s[i] = c THEN i ELSE IndexOf(s, c, i + 1)

Closer(c) == IF c = "[" THEN "]" ELSE ")"

\* _BRACKETED matched at position i: \s*(\[[^\]]+\]|\([^\)]+\))\s*
\* [open, close] are the ends of group 1, last the end of the match;
\* open = 0 when the pattern does not match at i.
BracketedMatch(s, i) ==
    LET j == SkipSpaces(s, i)
        k == IF j <= Len(s) /\ s[j] \in {"[", "("}
             THEN IndexOf(s, Closer(s[j]), j + 1) ELSE 0
    IN  IF k >= j + 2
        THEN [open |-> j, close |-> k, last |-> SkipSpaces(s, k + 1) - 1]
        ELSE [open |-> 0, close |-> 0, last |-> 0]

StartsEnds(s, a, b) == Len(s) >= 1 /\ s[1] = a /\ s[Len(s)] = b
Inside(s) == Strip(SubSeq(s, 2, Len(s) - 1))

\* repl(m) of _emphasize_bracketed, g = m.group(1)
repl(g) ==
    LET inner0 == Strip(g)
        inner1 == IF StartsEnds(inner0, "[", "]") THEN Inside(inner0) ELSE inner0
        inner2 == IF StartsEnds(inner1, "(", ")") THEN Inside(inner1) ELSE inner1
    IN  <<" ", "*">> \o inner2 \o <<"*", " ">>

\* _BRACKETED.sub(repl, text) from position i on
RECURSIVE SubFrom(_, _)
SubFrom(s, i) ==
    IF i > Len(s) THEN <<>>
    ELSE LET m == BracketedMatch(s, i)
         IN  IF m.open # 0
             THEN repl(SubSeq(s, m.open, m.close)) \o SubFrom(s, m.last + 1)
             ELSE <<s[i]>> \o SubFrom(s, i + 1)

emphasize_bracketed(text) == SubFrom(text, 1)

INDISTINCT == <<"*", "i", "n", "d", "i", "s", "t", "i", "n", "c", "t", "*">>

----------------------------------------------------------------------------
(* Confidence classifier *)

WordProbThreshold == 40
LogprobThreshold == 12

should_mark_indistinct(text, avg_logprob, avg_word_prob) ==
    \/ text = <<>>
    \/ ~WordlikeSearch(text)
    \/ avg_word_prob # None /\ Val(avg_word_prob) < WordProbThreshold
    \/ avg_logprob # None /\ Val(avg_logprob) < -LogprobThreshold

\* The text transcribe_file gives a segment: the emphasized raw text, wrapped
\* as *...* (or the literal marker) when it is judged indistinct.
Finalize(raw_text, avg_logprob, avg_word_prob) ==
    LET text == emphasize_bracketed(raw_text)
    IN  IF should_mark_indistinct(raw_text, avg_logprob, avg_word_prob)
        THEN IF text # <<>> THEN <<"*">> \o text \o <<"*">> ELSE INDISTINCT
        ELSE text

\* s.text.strip() is truthy
NonBlank(text) == Strip(text) # <<>>

----------------------------------------------------------------------------
(* Data model *)

WordToken(start, end, word, probability) ==
    [start |-> start, end |-> end, word |-> word, probability |-> probability]

TranscriptSegment(start, end, text, avg_logprob, no_speech_prob, speaker, words) ==
    [start |-> start, end |-> end, text |-> text, avg_logprob |-> avg_logprob,
     no_speech_prob |-> no_speech_prob, speaker |-> speaker, words |-> words]

RECURSIVE SumProbs(_)
SumProbs(ws) ==
    IF ws = <<>> THEN 0
    ELSE (IF Head(ws).probability = None THEN 0 ELSE Val(Head(ws).probability))
         + SumProbs(Tail(ws))

\* mean(probs) over the words that carry a probability, None when there is none
AvgWordProb(ws) ==
    LET n == Cardinality({i \in 1..Len(ws) : ws[i].probability # None})
    IN  IF n = 0 THEN None ELSE Some(SumProbs(ws) \div n)

WordTexts(ws) == [i \in 1..Len(ws) |-> ws[i].word]

\* flush_from_words of transcribe_file: the segment built from a run of words
flush_from_words(current_words, avg_logprob, no_speech_prob) ==
    TranscriptSegment(
        current_words[1].start,
        current_words[Len(current_words)].end,
        Finalize(Strip(Join(WordTexts(current_words))), avg_logprob,
                 AvgWordProb(current_words)),
        avg_logprob, no_speech_prob, None, current_words)

\* the fallback of transcribe_file: a segment without word timestamps
fallback_segment(start, end, seg_text, avg_logprob, no_speech_prob) ==
    TranscriptSegment(start, end, Finalize(Strip(seg_text), avg_logprob, None),
                      avg_logprob, no_speech_prob, None, <<>>)

----------------------------------------------------------------------------
(* Segment splitter *)

\* variant: a boundary on an end of the span counts as inside
OutsideSpanStrict(segment, boundary_time) ==
    boundary_time < segment.start \/ boundary_time > segment.end

\* line 178: the boundary is outside the segment's open span
OutsideSpan(segment, boundary_time) ==
    boundary_time <= segment.start \/ boundary_time >= segment.end

\* lines 189-199: the side a word goes to
WordSide(w, boundary_time) ==
    IF w.end <= boundary_time THEN "left"
    ELSE IF w.start >= boundary_time THEN "right"
    ELSE IF w.start + w.end <= 2 * boundary_time THEN "left" ELSE "right"

\* variant: a straddling word is kept whole
PlacedWordWhole(w, boundary_time) == w

\* lines 189-199: the token appended for a word (a straddling word is truncated)
PlacedWord(w, boundary_time) ==
    IF w.end <= boundary_time \/ w.start >= boundary_time THEN w
    ELSE IF WordSide(w, boundary_time) = "left"
         THEN WordToken(w.start, boundary_time, w.word, w.probability)
         ELSE WordToken(boundary_time, w.end, w.word, w.probability)

RECURSIVE SideWords(_, _, _)
SideWords(ws, boundary_time, side) ==
    IF ws = <<>> THEN <<>>
    ELSE (IF WordSide(Head(ws), boundary_time) = side
          THEN <<PlacedWord(Head(ws), boundary_time)>> ELSE <<>>)
         \o SideWords(Tail(ws), boundary_time, side)

\* lines 203/208 and 216/221: the text of a sub-segment
PartText(side_words) ==
    LET side_text == Strip(Join(WordTexts(side_words)))
    IN  IF side_text # <<>> THEN emphasize_bracketed(side_text) ELSE INDISTINCT

\* variant: the sub-segment does not carry the speaker over
SubSegmentNoSpeaker(segment, start, end, side_words) ==
    TranscriptSegment(start, end, PartText(side_words), segment.avg_logprob,
                      segment.no_speech_prob, None, side_words)

\* variant: the sub-segment spans its words instead of the cut
SubSegmentOfWords(segment, start, end, side_words) ==
    TranscriptSegment(side_words[1].start, side_words[Len(side_words)].end,
                      PartText(side_words), segment.avg_logprob,
                      segment.no_speech_prob, segment.speaker, side_words)

\* lines 204-214 and 217-227: a sub-segment
SubSegment(segment, start, end, side_words) ==
    TranscriptSegment(start, end, PartText(side_words), segment.avg_logprob,
                      segment.no_speech_prob, segment.speaker, side_words)

\* variant: the right copy keeps the text
SplitNoWordsBothText(segment, boundary_time) ==
    << [segment EXCEPT !.end = boundary_time],
       [segment EXCEPT !.start = boundary_time] >>

\* lines 180-184: the split of a segment without word alignment
SplitNoWords(segment, boundary_time) ==
    << [segment EXCEPT !.end = boundary_time],
       [segment EXCEPT !.start = boundary_time, !.text = <<>>] >>

\* lines 186-231: the split of a word-aligned segment
SplitWords(segment, boundary_time) ==
    LET left_words == SideWords(segment.words, boundary_time, "left")
        right_words == SideWords(segment.words, boundary_time, "right")
        parts ==
            (IF left_words # <<>>
             THEN <<SubSegment(segment, segment.start, boundary_time, left_words)>>
             ELSE <<>>)
            \o
            (IF right_words # <<>>
             THEN <<SubSegment(segment, boundary_time, segment.end, right_words)>>
             ELSE <<>>)
    IN  IF parts = <<>>
        THEN << [segment EXCEPT !.end = boundary_time, !.text = INDISTINCT] >>
        ELSE parts

split_segment_at_time(segment, boundary_time) ==
    IF OutsideSpan(segment, boundary_time) THEN <<segment>>
    ELSE IF segment.words = <<>> THEN SplitNoWords(segment, boundary_time)
    ELSE SplitWords(segment, boundary_time)

----------------------------------------------------------------------------
(* Boundary-set applier *)

\* sorted(boundaries): insertion of x before the first larger element
RECURSIVE InsertSorted(_, _)
InsertSorted(x, s) ==
    IF s = <<>> THEN <<x>>
    ELSE IF x < Head(s) THEN <<x>> \o s
    ELSE <<Head(s)>> \o InsertSorted(x, Tail(s))

RECURSIVE sorted(_)
sorted(s) ==
    IF s = <<>> THEN <<>>
    ELSE InsertSorted(s[Len(s)], sorted(SubSeq(s, 1, Len(s) - 1)))

\* lines 242-245: one boundary applied to every part of the stack
RECURSIVE SplitStack(_, _)
SplitStack(stack, b) ==
    IF stack = <<>> THEN <<>>
    ELSE split_segment_at_time(Head(stack), b) \o SplitStack(Tail(stack), b)

\* lines 240-245: the stack of one segment after the first n boundaries of bs
RECURSIVE StackAfter(_, _, _)
StackAfter(seg, bs, n) ==
    IF n = 0 THEN <<seg>>
    ELSE SplitStack(StackAfter(seg, bs, n - 1), bs[n])

\* lines 239-246: the parts of every segment, in segment order
RECURSIVE AllParts(_, _)
AllParts(segs, bs) ==
    IF segs = <<>> THEN <<>>
    ELSE StackAfter(Head(segs), bs, Len(bs)) \o AllParts(Tail(segs), bs)

\* variant: nothing is dropped
KeepAll(parts) == parts

\* line 248
DropEmpty(parts) == SelectSeq(parts, LAMBDA s : NonBlank(s.text))

split_segments_at_boundaries(segs, bounds) ==
    IF segs = <<>> \/ bounds = <<>> THEN segs
    ELSE DropEmpty(AllParts(segs, sorted(bounds)))

\* every call split_segments_at_boundaries(segs, bounds) makes of
\* split_segment_at_time: its arguments and what it returned
SplitCalls(segs, bounds) ==
    IF segs = <<>> \/ bounds = <<>> THEN {}
    ELSE LET bs == sorted(bounds)
             CallsOn(stack, b) ==
                 { [segment |-> stack[k], boundary_time |-> b,
                    parts |-> split_segment_at_time(stack[k], b)]
                   : k \in 1..Len(stack) }
         IN  UNION { UNION { CallsOn(StackAfter(segs[i], bs, n - 1), bs[n])
                             : n \in 1..Len(bs) }
                     : i \in 1..Len(segs) }

----------------------------------------------------------------------------
(* Inputs: what the recogniser hands over, within the bounds *)

\* (word, probability) of a recognised word
WordKinds ==
    { << <<" ", "a">>, Some(90) >>, << <<" ">>, None >>,
      << <<".">>, Some(90) >>, << <<"[", "b", "]">>, Some(20) >> }
\* (avg_logprob, no_speech_prob) of a recognised segment
Confidences == { <<None, None>>, <<Some(-20), Some(90)>>, <<Some(-5), Some(10)>> }

WordTokens ==
    { WordToken(s, e, k[1], k[2]) : s \in Times, e \in Times, k \in WordKinds }

\* words as the recogniser times them: each of positive length, in order,
\* none overlapping the next
WordLists ==
    UNION { { ws \in [1..n -> WordTokens] :
                /\ \A i \in 1..n : ws[i].start < ws[i].end
                /\ \A i \in 1..(n - 1) : ws[i].end <= ws[i + 1].start }
            : n \in 1..MaxWords }

AlignedSegments ==
    { flush_from_words(ws, c[1], c[2]) : ws \in WordLists, c \in Confidences }

SegTexts == { <<"a", " ", "b">>, <<"[", "b", "]">> }

UnalignedSegments ==
    { fallback_segment(s, e, t, c[1], c[2]) :
        s \in Times, e \in Times, t \in SegTexts, c \in Confidences }

\* a caller of the module's functions may also hand over a segment whose text
\* is blank
BlankSegments ==
    { TranscriptSegment(s, e, <<" ">>, None, None, None, <<>>) :
        s \in Times, e \in Times }

RecognisedSegments ==
    { seg \in AlignedSegments \cup UnalignedSegments \cup BlankSegments :
        seg.start < seg.end }

\* the labels of the two channels: equal or different
LeftLabels == { "You" }
RightLabels == { "You", "Other" }

\* line 257: replace(s, speaker=...)
Labelled(segs, speaker) ==
    [i \in 1..Len(segs) |-> [segs[i] EXCEPT !.speaker = Some(speaker)]]

\* boundary lists: at most MaxBoundaries distinct times, in ascending or in
\* descending order
BoundaryLists ==
    UNION { { bs \in [1..n -> Times] :
                \/ \A i \in 1..(n - 1) : bs[i] < bs[i + 1]
                \/ \A i \in 1..(n - 1) : bs[i] > bs[i + 1] }
            : n \in 0..MaxBoundaries }

----------------------------------------------------------------------------
(* Specification SpecApply: one call of _split_segments_at_boundaries *)

IdleMerge ==
    /\ left_segments = <<>> /\ right_segments = <<>>
    /\ left_speaker = "You" /\ right_speaker = "Other"
    /\ left_list = <<>> /\ right_list = <<>>
    /\ left_boundaries = <<>> /\ right_boundaries = <<>>
    /\ merged = <<>>

IdleFmt ==
    /\ seconds = 0 /\ minutes = 0 /\ secs = 0 /\ centis = 0
    /\ formatted = <<>>

IdleApply ==
    /\ segments = <<>> /\ boundaries = <<>> /\ result = <<>>

InitApply ==
    /\ pc = "apply"
    /\ segments \in { <<>> } \cup { Labelled(<<seg>>, "You") : seg \in RecognisedSegments }
    /\ boundaries \in BoundaryLists
    /\ result = <<>>
    /\ IdleMerge
    /\ IdleFmt

Apply ==
    /\ pc = "apply"
    /\ result' = split_segments_at_boundaries(segments, boundaries)
    /\ pc' = "applied"
    /\ UNCHANGED <<segments, boundaries, mergeVars, fmtVars>>

NextApply == Apply

SpecApply == InitApply /\ [][NextApply]_vars

Calls == SplitCalls(segments, boundaries)

----------------------------------------------------------------------------
(* Properties of the splitter and the applier, under SpecApply *)

Applied == pc = "applied"

StrictlyInside(seg, t) == seg.start < t /\ t < seg.end

Straddles(w, t) == w.start < t /\ t < w.end

Spans(parts) == [i \in 1..Len(parts) |-> <<parts[i].start, parts[i].end>>]

\* a call that cuts a word-aligned segment strictly inside its span
AlignedCut(c) ==
    /\ c.segment.words # <<>>
    /\ StrictlyInside(c.segment, c.boundary_time)

\* a call of C4's case: an aligned cut with no word straddling the boundary
CleanCut(c) ==
    /\ AlignedCut(c)
    /\ \A i \in 1..Len(c.segment.words) :
           ~Straddles(c.segment.words[i], c.boundary_time)

HasLeftWord(c) ==
    \E i \in 1..Len(c.segment.words) : c.segment.words[i].end <= c.boundary_time

HasRightWord(c) ==
    \E i \in 1..Len(c.segment.words) : c.segment.words[i].start >= c.boundary_time

\* C7: a boundary at or outside the ends of a segment's span leaves the segment
\* as it is: the split returns the one-element sequence holding the input
\* segment, every field unchanged.
C7_NoOpOutsideSpan ==
    Applied =>
        \A c \in Calls :
            (c.boundary_time <= c.segment.start \/ c.boundary_time >= c.segment.end)
                => c.parts = <<c.segment>>

C7_Witness ==
    /\ Applied
    /\ \E c \in Calls : c.segment.words # <<>> /\ c.boundary_time = c.segment.end
    /\ \E c \in Calls : c.segment.words # <<>> /\ c.boundary_time = c.segment.start

AllNonBlank(parts) == \A i \in 1..Len(parts) : NonBlank(parts[i].text)

\* C5 as claimed: the applier never returns a part whose trimmed text is empty.
C5_NeverBlank == Applied => AllNonBlank(result)

\* C5 amended: when the segment list and the boundary list are both non-empty,
\* no returned part has blank text; when either is empty the segments are
\* returned as they came.
C5_NonBlankWhenApplied ==
    Applied =>
        IF segments # <<>> /\ boundaries # <<>>
        THEN AllNonBlank(result)
        ELSE result = segments

C5_Witness ==
    /\ Applied
    /\ segments # <<>> /\ boundaries # <<>>
    /\ ~NonBlank(segments[1].text)
    /\ result = <<>>

InsideBoundaries(seg, bounds) ==
    { bounds[i] : i \in { j \in 1..Len(bounds) : StrictlyInside(seg, bounds[j]) } }

Min(S) == CHOOSE x \in S : \A y \in S : x <= y

\* C6: a segment without word alignment and with non-blank text, cut by a
\* boundary list holding at least one time strictly inside its span, yields
\* exactly one part: from the segment's start to the smallest such boundary,
\* with the original text.
C6_UnalignedKeepsTextOnce ==
    (/\ Applied
     /\ segments # <<>>
     /\ segments[1].words = <<>>
     /\ NonBlank(segments[1].text)
     /\ InsideBoundaries(segments[1], boundaries) # {})
        => result = << [segments[1] EXCEPT
                            !.end = Min(InsideBoundaries(segments[1], boundaries))] >>

C6_Witness ==
    /\ Applied
    /\ segments # <<>>
    /\ segments[1].words = <<>>
    /\ NonBlank(segments[1].text)
    /\ Cardinality(InsideBoundaries(segments[1], boundaries)) >= 2
    /\ Len(result) = 1

\* C9: every sub-segment of a word-aligned cut carries the text
\* finalize(stripped concatenation of its words, avg_logprob, no_speech_prob).
C9_PartTextFinalized ==
    Applied =>
        \A c \in Calls :
            AlignedCut(c) =>
                \A i \in 1..Len(c.parts) :
                    c.parts[i].text =
                        Finalize(Strip(Join(WordTexts(c.parts[i].words))),
                                 c.segment.avg_logprob, c.segment.no_speech_prob)

RECURSIVE PartWords(_)
PartWords(parts) ==
    IF parts = <<>> THEN <<>> ELSE Head(parts).words \o PartWords(Tail(parts))

\* C10: after all boundaries are applied to a word-aligned segment, the words
\* of the surviving parts, read in order, are the segment's words, each once,
\* with text and probability unchanged and a time span inside both the
\* original word's and its part's; a straddling word went to the left of the
\* cut when its midpoint is at or before it, to the right otherwise, truncated
\* at the cut.
C10_WordConservation ==
    (Applied /\ segments # <<>> /\ segments[1].words # <<>>) =>
        LET src == segments[1].words
            got == PartWords(result)
        IN  /\ Len(got) = Len(src)
            /\ \A i \in 1..Len(src) :
                   /\ got[i].word = src[i].word
                   /\ got[i].probability = src[i].probability
                   /\ src[i].start <= got[i].start
                   /\ got[i].start <= got[i].end
                   /\ got[i].end <= src[i].end
            /\ \A k \in 1..Len(result) :
                   \A i \in 1..Len(result[k].words) :
                       /\ result[k].start <= result[k].words[i].start
                       /\ result[k].words[i].end <= result[k].end
            /\ \A c \in Calls :
                   \A i \in 1..Len(c.segment.words) :
                       LET w == c.segment.words[i]
                           t == c.boundary_time
                       IN  (StrictlyInside(c.segment, t) /\ Straddles(w, t)) =>
                               IF w.start + w.end <= 2 * t
                               THEN /\ c.parts[1].end = t
                                    /\ c.parts[1].words[Len(c.parts[1].words)]
                                           = WordToken(w.start, t, w.word, w.probability)
                               ELSE /\ c.parts[Len(c.parts)].start = t
                                    /\ c.parts[Len(c.parts)].words[1]
                                           = WordToken(t, w.end, w.word, w.probability)

C10_Witness ==
    /\ Applied /\ segments # <<>> /\ segments[1].words # <<>>
    /\ Len(result) >= 2
    /\ \E c \in Calls :
           \E i \in 1..Len(c.segment.words) :
               /\ StrictlyInside(c.segment, c.boundary_time)
               /\ Straddles(c.segment.words[i], c.boundary_time)

----------------------------------------------------------------------------
(* Specification Spec: one call of merge_dialogue *)

\* the segments of a channel in the calls of merge_dialogue explored: one word
\* text, no confidence signals
PlainWordLists ==
    { ws \in WordLists :
        \A i \in 1..Len(ws) :
            ws[i].word = <<" ", "a">> }

ChannelSegments ==
    { seg \in { flush_from_words(ws, None, None) : ws \in PlainWordLists }
              \cup { fallback_segment(s, e, <<"a", " ", "b">>, None, None) :
                       s \in Times, e \in Times } :
        seg.start < seg.end }

\* a channel: segments in the order recognised, none overlapping the next
Channels ==
    UNION { { ch \in [1..n -> ChannelSegments] :
                \A i \in 1..(n - 1) : ch[i].end <= ch[i + 1].start }
            : n \in 0..MaxSegs }

Starts(segs) == [i \in 1..Len(segs) |-> segs[i].start]

\* variant: a channel is cut at its own start times
OwnBoundaries(own, other) == Starts(own)

\* lines 261-262: a channel is cut at the other channel's start times
CrossBoundaries(own, other) == Starts(other)

\* variant: key=lambda s: s.start
KeyLessStartOnly(a, b) == a.start < b.start

\* line 272: key=lambda s: (s.start, s.end)
KeyLess(a, b) == a.start < b.start \/ (a.start = b.start /\ a.end < b.end)

\* list.sort: stable, an element stays behind the elements of equal key
RECURSIVE InsertByKey(_, _)
InsertByKey(x, s) ==
    IF s = <<>> THEN <<x>>
    ELSE IF KeyLess(x, Head(s)) THEN <<x>> \o s
    ELSE <<Head(s)>> \o InsertByKey(x, Tail(s))

RECURSIVE SortByKey(_)
SortByKey(s) ==
    IF s = <<>> THEN <<>>
    ELSE InsertByKey(s[Len(s)], SortByKey(SubSeq(s, 1, Len(s) - 1)))

Init ==
    /\ pc = "label"
    /\ left_segments \in Channels
    /\ right_segments \in Channels
    /\ left_speaker \in LeftLabels
    /\ right_speaker \in RightLabels
    /\ left_list = <<>> /\ right_list = <<>>
    /\ left_boundaries = <<>> /\ right_boundaries = <<>>
    /\ merged = <<>>
    /\ IdleApply
    /\ IdleFmt

\* lines 257-262
Label ==
    /\ pc = "label"
    /\ left_list' = Labelled(left_segments, left_speaker)
    /\ right_list' = Labelled(right_segments, right_speaker)
    /\ left_boundaries' = CrossBoundaries(left_list', right_list')
    /\ right_boundaries' = CrossBoundaries(right_list', left_list')
    /\ pc' = "split_left"
    /\ UNCHANGED <<left_segments, left_speaker, right_segments, right_speaker,
                   merged, applyVars, fmtVars>>

\* line 264
SplitLeft ==
    /\ pc = "split_left"
    /\ left_list' = split_segments_at_boundaries(left_list, left_boundaries)
    /\ pc' = "split_right"
    /\ UNCHANGED <<left_segments, left_speaker, right_segments, right_speaker,
                   right_list, left_boundaries, right_boundaries, merged,
                   applyVars, fmtVars>>

\* line 265
SplitRight ==
    /\ pc = "split_right"
    /\ right_list' = split_segments_at_boundaries(right_list, right_boundaries)
    /\ pc' = "sort"
    /\ UNCHANGED <<left_segments, left_speaker, right_segments, right_speaker,
                   left_list, left_boundaries, right_boundaries, merged,
                   applyVars, fmtVars>>

\* lines 267-273
Sort ==
    /\ pc = "sort"
    /\ merged' = SortByKey(left_list \o right_list)
    /\ pc' = "done"
    /\ UNCHANGED <<left_segments, left_speaker, right_segments, right_speaker,
                   left_list, right_list, left_boundaries, right_boundaries,
                   applyVars, fmtVars>>

Next == Label \/ SplitLeft \/ SplitRight \/ Sort

Spec == Init /\ [][Next]_vars

----------------------------------------------------------------------------
(* Properties of merge_dialogue, under Spec *)

Done == pc = "done"

Range(s) == { s[i] : i \in 1..Len(s) }

\* C1: the merged sequence is sorted by start, and by end among equal starts.
C1_MergedSorted ==
    Done =>
        \A i \in 1..(Len(merged) - 1) :
            /\ merged[i].start <= merged[i + 1].start
            /\ merged[i].start = merged[i + 1].start
                   => merged[i].end <= merged[i + 1].end

C1_Witness ==
    /\ Done
    /\ Len(merged) >= 3
    /\ merged # left_list \o right_list
    /\ \E i \in 1..(Len(merged) - 1) :
           /\ merged[i].start = merged[i + 1].start
           /\ merged[i].end < merged[i + 1].end

NoStartInside(parts, others) ==
    \A i \in 1..Len(parts) :
        \A j \in 1..Len(others) :
            ~(parts[i].start < others[j].start /\ others[j].start < parts[i].end)

\* C2: no segment of the output spans across a turn start of the other
\* channel: no part of the left channel has a start time of a right input
\* segment strictly inside its span, and the same with the channels exchanged;
\* the merged sequence consists of exactly these parts.
C2_NoSpanAcrossTurn ==
    Done =>
        /\ NoStartInside(left_list, right_segments)
        /\ NoStartInside(right_list, left_segments)
        /\ Range(merged) = Range(left_list) \cup Range(right_list)
        /\ left_speaker # right_speaker =>
               \A i \in 1..Len(merged) :
                   /\ merged[i].speaker = Some(left_speaker)
                          => NoStartInside(<<merged[i]>>, right_segments)
                   /\ merged[i].speaker = Some(right_speaker)
                          => NoStartInside(<<merged[i]>>, left_segments)

StartsInside(seg, others) ==
    { others[j].start : j \in { k \in 1..Len(others) :
                                  StrictlyInside(seg, others[k].start) } }

C2_Witness ==
    /\ Done
    /\ \E i \in 1..Len(left_segments) :
           /\ left_segments[i].words # <<>>
           /\ Cardinality(StartsInside(left_segments[i], right_segments)) >= 2
    /\ \E j \in 1..Len(right_segments) :
           /\ right_segments[j].words = <<>>
           /\ NonBlank(right_segments[j].text)
    /\ Len(left_list) >= 2

\* C3: every part of the left channel carries the left speaker label and every
\* part of the right channel the right one; the merged sequence holds these
\* parts and no other, so no segment of it has its speaker unset.
C3_SpeakerOfChannel ==
    Done =>
        /\ \A i \in 1..Len(left_list) : left_list[i].speaker = Some(left_speaker)
        /\ \A i \in 1..Len(right_list) : right_list[i].speaker = Some(right_speaker)
        /\ Len(merged) = Len(left_list) + Len(right_list)
        /\ \A i \in 1..Len(merged) :
               /\ merged[i].speaker # None
               /\ merged[i] \in Range(left_list) \cup Range(right_list)

C3_Witness ==
    /\ Done
    /\ left_speaker # right_speaker
    /\ Len(left_list) > Len(left_segments)
    /\ \E i \in 1..Len(left_segments) : left_segments[i].words # <<>>
    /\ \E j \in 1..Len(right_segments) :
           /\ right_segments[j].words = <<>>
           /\ NonBlank(right_segments[j].text)
           /\ StartsInside(right_segments[j], left_segments) # {}

----------------------------------------------------------------------------
(* Specification SpecFmt: one call of _fmt_time, its argument in milliseconds *)

MaxMillis == 61000
MinMillis == 3000

FmtInputs == (-MinMillis)..MaxMillis

DigitChars == <<"0", "1", "2", "3", "4", "5", "6", "7", "8", "9">>

RECURSIVE Decimal(_)
Decimal(n) ==
    IF n < 10 THEN <<DigitChars[n + 1]>>
    ELSE Decimal(n \div 10) \o <<DigitChars[(n % 10) + 1]>>

\* format spec 02d: zero-padded to a width of at least two
Fmt02d(n) == IF n < 10 THEN <<"0">> \o Decimal(n) ELSE Decimal(n)

\* line 14: round() of the fraction in hundredths. frac is in milliseconds; a
\* value exactly halfway between two hundredths goes either way, as the
\* floating-point product decides.
RoundCentis(frac) ==
    IF frac % 10 = 5 THEN { frac \div 10, (frac \div 10) + 1 }
    ELSE IF frac % 10 < 5 THEN { frac \div 10 }
    ELSE { (frac \div 10) + 1 }

Clamped(ms) == IF ms < 0 THEN 0 ELSE ms

InitFmt ==
    /\ pc = "fmt"
    /\ seconds \in FmtInputs
    /\ minutes = 0 /\ secs = 0 /\ centis = 0
    /\ formatted = <<>>
    /\ IdleApply
    /\ IdleMerge

fmt_time ==
    /\ pc = "fmt"
    /\ LET s == Clamped(seconds)
           m == s \div 60000
           r == s - m * 60000
       IN  /\ minutes' = m
           /\ secs' = r \div 1000
           /\ centis' \in RoundCentis(r % 1000)
           /\ formatted' = <<"[">> \o Fmt02d(m) \o <<":">> \o Fmt02d(r \div 1000)
                               \o <<".">> \o Fmt02d(centis') \o <<"]">>
    /\ pc' = "formatted"
    /\ UNCHANGED <<seconds, applyVars, mergeVars>>

NextFmt == fmt_time

SpecFmt == InitFmt /\ [][NextFmt]_vars

\* C8: every time is rendered as [MM:SS.CC]: a negative time as [00:00.00],
\* MM the whole minutes, SS the whole seconds within the minute in 0..59, and
\* CC the rounded centiseconds, two digits in 0..99.
C8_FixedForm ==
    pc = "formatted" =>
        /\ seconds < 0 => formatted = <<"[", "0", "0", ":", "0", "0", ".", "0", "0", "]">>
        /\ minutes = Clamped(seconds) \div 60000
        /\ secs \in 0..59
        /\ centis \in 0..99
        /\ formatted = <<"[">> \o Fmt02d(minutes) \o <<":">> \o Fmt02d(secs)
                           \o <<".">> \o Fmt02d(centis) \o <<"]">>
        /\ Len(formatted) = Len(Fmt02d(minutes)) + 8

====
